---- MODULE Spec2Model ----
(***************************************************************************)
(* The Royal Game of Ur of src/ur_gui.py: the rules engine (class          *)
(* RoyalGameOfUr) and the click-driven state machine of main().            *)
(*                                                                         *)
(* Players are 0 (White, "First") and 1 (Black, "Second") as in the code.  *)
(* positions[player][piece] is -1 (off-board), 0..13 (on track) or 14      *)
(* (borne off).  Piece indices run over 0..N_PIECES-1 as in Python.        *)
(* An event of the pygame loop is one step: a left mouse click on a point  *)
(* of the window (MouseDown) or the end-of-frame countdown (Frame).        *)
(***************************************************************************)
EXTENDS Integers, Sequences, FiniteSets

(***************************************************************************)
(* Program constants                                                       *)
(***************************************************************************)
N_PIECES == 7

TRACK_LEN == 14

ROSETTES == {3, 7, 13}

\* every square of the track treated as shared
SHARED_whole_track == 0..(TRACK_LEN - 1)

SHARED == 4..11

\* capture squares that include the shared rosette
CAPTURE_SQUARES_with_rosette == SHARED

CAPTURE_SQUARES == SHARED \ ROSETTES

\* every rosette triggering a quiz
QUIZ_TRIGGER_ROSETTES_all == ROSETTES

QUIZ_TRIGGER_ROSETTES == {3, 7}

CAPTURE_ANIM_FRAMES == 90

QUIZ_FEEDBACK_FRAMES == 30

\* correct_index of each entry of QUIZ_QUESTIONS, in order
QUIZ_CORRECT == <<1, 2, 3, 1, 2, 1, 3, 1, 2, 2, 1, 1, 0, 2>>

\* Python's None where the other values are integers / where they are strings
None == -2

NoneStr == "None"

Players == {0, 1}

Pieces == 0..(N_PIECES - 1)

(***************************************************************************)
(* Bounds of the exploration                                               *)
(***************************************************************************)
\* dice rolls made by the driver in one run of the program
MaxRolls == 3

VARIABLES
    positions,            \* game.positions
    current_player,       \* game.current_player
    state,                \* main: state
    roll_value,           \* main: roll_value
    ui_legal_moves,       \* main: legal_moves (the list enumerated at roll time)
    selected_piece,       \* main: selected_piece
    quiz_question_index,  \* main: quiz_question_index
    quiz_current,         \* main: quiz_current (index of the question shown, or None)
    quiz_player,          \* main: quiz_player
    quiz_correct_option,  \* main: quiz_correct_option
    quiz_last_choice,     \* main: quiz_last_choice
    quiz_feedback_frames, \* main: quiz_feedback_frames
    capture_square,       \* main: capture_square
    capture_anim_frames,  \* main: capture_anim_frames
    post_capture_state,   \* main: post_capture_state
    p,                    \* main, await_dest handler: p of the last applied move
    landing_pos,          \* main, await_dest handler: landing_pos of the last applied move
    n_rolls               \* number of game.roll_dice() calls made so far

vars == <<positions, current_player, state, roll_value, ui_legal_moves,
          selected_piece, quiz_question_index, quiz_current, quiz_player,
          quiz_correct_option, quiz_last_choice, quiz_feedback_frames,
          capture_square, capture_anim_frames, post_capture_state, p,
          landing_pos, n_rolls>>

gameVars == <<positions, current_player>>

moveVars == <<p, landing_pos>>

quizVars == <<quiz_question_index, quiz_current, quiz_player,
              quiz_correct_option, quiz_last_choice, quiz_feedback_frames>>

captureVars == <<capture_square, capture_anim_frames, post_capture_state>>

(***************************************************************************)
(* RoyalGameOfUr                                                           *)
(***************************************************************************)
\* roll_dice over range(3)
roll_dice_three(bits) == bits[1] + bits[2] + bits[3]

\* sum(self.rng.choice([0, 1]) for _ in range(4))
roll_dice(bits) == bits[1] + bits[2] + bits[3] + bits[4]

DiceBits == [1..4 -> {0, 1}]

on_track(pos) == 0 <= pos /\ pos < TRACK_LEN

own_set(pos, player) == {pos[player][i] : i \in {j \in Pieces : on_track(pos[player][j])}}

opp_set(pos, player) == {pos[1 - player][i] : i \in {j \in Pieces : on_track(pos[1 - player][j])}}

\* first opponent index standing on newpos (the dict keeps the first one seen)
opp_index_by_pos(pos, player, newpos) ==
    LET here == {i \in Pieces : pos[1 - player][i] = newpos}
    IN  CHOOSE i \in here : \A j \in here : i <= j

Move(piece, newpos, extra, captured) ==
    [piece |-> piece, newpos |-> newpos, extra |-> extra, captured |-> captured]

\* landing_info that lets a piece land beside an opponent on a capture square
\* without capturing it
landing_info_no_capture(pos, player, newpos) ==
    IF newpos \in own_set(pos, player)
    THEN [allowed |-> FALSE, captured |-> None]
    ELSE IF newpos \in SHARED /\ newpos \in opp_set(pos, player)
            /\ newpos \notin CAPTURE_SQUARES
         THEN [allowed |-> FALSE, captured |-> None]
         ELSE [allowed |-> TRUE, captured |-> None]

\* landing_info without the test "newpos in own_set"
landing_info_no_own_check(pos, player, newpos) ==
    IF newpos \in SHARED /\ newpos \in opp_set(pos, player)
    THEN IF newpos \in CAPTURE_SQUARES
         THEN [allowed |-> TRUE, captured |-> opp_index_by_pos(pos, player, newpos)]
         ELSE [allowed |-> FALSE, captured |-> None]
    ELSE [allowed |-> TRUE, captured |-> None]

\* landing_info that captures on any square the opponent's pieces stand on,
\* without the test "newpos in SHARED"
landing_info_capture_anywhere(pos, player, newpos) ==
    IF newpos \in own_set(pos, player)
    THEN [allowed |-> FALSE, captured |-> None]
    ELSE IF newpos \in opp_set(pos, player)
         THEN IF newpos \notin ROSETTES
              THEN [allowed |-> TRUE, captured |-> opp_index_by_pos(pos, player, newpos)]
              ELSE [allowed |-> FALSE, captured |-> None]
         ELSE [allowed |-> TRUE, captured |-> None]

\* (allowed, captured_idx) for landing on newpos
landing_info(pos, player, newpos) ==
    IF newpos \in own_set(pos, player)
    THEN [allowed |-> FALSE, captured |-> None]
    ELSE IF newpos \in SHARED /\ newpos \in opp_set(pos, player)
         THEN IF newpos \in CAPTURE_SQUARES
              THEN [allowed |-> TRUE, captured |-> opp_index_by_pos(pos, player, newpos)]
              ELSE [allowed |-> FALSE, captured |-> None]
         ELSE [allowed |-> TRUE, captured |-> None]


\* piece_moves without the test "newpos > TRACK_LEN: continue"
RECURSIVE piece_moves_overshoot(_, _, _, _)
piece_moves_overshoot(pos, player, roll, i) ==
    IF i >= N_PIECES THEN <<>>
    ELSE LET cur    == pos[player][i]
             newpos == cur + roll
             rest   == piece_moves_overshoot(pos, player, roll, i + 1)
             info   == landing_info(pos, player, newpos)
         IN  IF cur < 0 \/ cur >= TRACK_LEN THEN rest
             ELSE IF newpos = TRACK_LEN
                  THEN <<Move(i, newpos, FALSE, None)>> \o rest
             ELSE IF ~info.allowed THEN rest
             ELSE <<Move(i, newpos, newpos \in ROSETTES, info.captured)>> \o rest

\* piece_moves that bears a piece off with any roll that reaches or passes the end
RECURSIVE piece_moves_bear_off_any(_, _, _, _)
piece_moves_bear_off_any(pos, player, roll, i) ==
    IF i >= N_PIECES THEN <<>>
    ELSE LET cur    == pos[player][i]
             newpos == cur + roll
             rest   == piece_moves_bear_off_any(pos, player, roll, i + 1)
             info   == landing_info(pos, player, newpos)
         IN  IF cur < 0 \/ cur >= TRACK_LEN THEN rest
             ELSE IF newpos >= TRACK_LEN
                  THEN <<Move(i, TRACK_LEN, FALSE, None)>> \o rest
             ELSE IF ~info.allowed THEN rest
             ELSE <<Move(i, newpos, newpos \in ROSETTES, info.captured)>> \o rest

\* piece_moves with the overshoot test written "newpos >= TRACK_LEN: continue"
RECURSIVE piece_moves_no_bear_off(_, _, _, _)
piece_moves_no_bear_off(pos, player, roll, i) ==
    IF i >= N_PIECES THEN <<>>
    ELSE LET cur    == pos[player][i]
             newpos == cur + roll
             rest   == piece_moves_no_bear_off(pos, player, roll, i + 1)
             info   == landing_info(pos, player, newpos)
         IN  IF cur < 0 \/ cur >= TRACK_LEN THEN rest
             ELSE IF newpos >= TRACK_LEN THEN rest
             ELSE IF ~info.allowed THEN rest
             ELSE <<Move(i, newpos, newpos \in ROSETTES, info.captured)>> \o rest

\* the loop "for i, pos in enumerate(own_positions)" from index i on
RECURSIVE piece_moves(_, _, _, _)
piece_moves(pos, player, roll, i) ==
    IF i >= N_PIECES THEN <<>>
    ELSE LET cur    == pos[player][i]
             newpos == cur + roll
             rest   == piece_moves(pos, player, roll, i + 1)
             info   == landing_info(pos, player, newpos)
         IN  IF cur < 0 \/ cur >= TRACK_LEN THEN rest
             ELSE IF newpos > TRACK_LEN THEN rest
             ELSE IF newpos = TRACK_LEN
                  THEN <<Move(i, newpos, FALSE, None)>> \o rest
             ELSE IF ~info.allowed THEN rest
             ELSE <<Move(i, newpos, newpos \in ROSETTES, info.captured)>> \o rest

\* entry_moves that never grants the extra turn of a rosette
entry_moves_no_bonus(pos, player, roll) ==
    LET entry_pos == roll - 1
        info      == landing_info(pos, player, entry_pos)
    IN  IF (\E i \in Pieces : pos[player][i] = -1)
           /\ 0 <= entry_pos /\ entry_pos < TRACK_LEN
           /\ info.allowed
        THEN <<Move(None, entry_pos, FALSE, info.captured)>>
        ELSE <<>>

\* entry_moves that offers one entry for each piece still off the board
entry_moves_per_piece(pos, player, roll) ==
    LET entry_pos == roll - 1
        info      == landing_info(pos, player, entry_pos)
        off       == {i \in Pieces : pos[player][i] = -1}
    IN  IF 0 <= entry_pos /\ entry_pos < TRACK_LEN /\ info.allowed
        THEN [k \in 1..Cardinality(off) |->
                 Move(None, entry_pos, entry_pos \in ROSETTES, info.captured)]
        ELSE <<>>

\* "Enter a new piece from off-board"
entry_moves(pos, player, roll) ==
    LET entry_pos == roll - 1
        info      == landing_info(pos, player, entry_pos)
    IN  IF (\E i \in Pieces : pos[player][i] = -1)
           /\ 0 <= entry_pos /\ entry_pos < TRACK_LEN
           /\ info.allowed
        THEN <<Move(None, entry_pos, entry_pos \in ROSETTES, info.captured)>>
        ELSE <<>>

\* legal_moves without the early return for roll 0, entering at slot roll
legal_moves_no_zero_guard(pos, player, roll) ==
    piece_moves(pos, player, roll, 0) \o entry_moves(pos, player, roll + 1)

\* legal_moves with the entry block placed before the piece loop
legal_moves_entry_first(pos, player, roll) ==
    IF roll = 0 THEN <<>>
    ELSE entry_moves(pos, player, roll) \o piece_moves(pos, player, roll, 0)

legal_moves(pos, player, roll) ==
    IF roll = 0 THEN <<>>
    ELSE piece_moves(pos, player, roll, 0) \o entry_moves(pos, player, roll)

\* self.positions[player].index(-1)
first_off_board(pos, player) ==
    LET off == {i \in Pieces : pos[player][i] = -1}
    IN  CHOOSE i \in off : \A j \in off : i <= j

\* apply_move that leaves the captured piece where it is
apply_move_no_reset(pos, player, move) ==
    LET idx == IF move.piece = None THEN first_off_board(pos, player)
               ELSE move.piece
    IN  [pos EXCEPT ![player][idx] = move.newpos]

\* apply_move that, for an entry, places every piece found at -1
apply_move_enter_all(pos, player, move) ==
    LET opponent == 1 - player
        pos1 == IF move.captured # None
                THEN [pos EXCEPT ![opponent][move.captured] = -1]
                ELSE pos
    IN  IF move.piece = None
        THEN [pos1 EXCEPT ![player] =
                 [i \in Pieces |-> IF pos1[player][i] = -1 THEN move.newpos
                                   ELSE pos1[player][i]]]
        ELSE [pos1 EXCEPT ![player][move.piece] = move.newpos]

\* apply_move that adds the destination to the piece's position instead of
\* storing it
apply_move_adds(pos, player, move) ==
    LET opponent == 1 - player
        pos1 == IF move.captured # None
                THEN [pos EXCEPT ![opponent][move.captured] = -1]
                ELSE pos
        idx  == IF move.piece = None THEN first_off_board(pos1, player)
                ELSE move.piece
    IN  [pos1 EXCEPT ![player][idx] = pos1[player][idx] + move.newpos]

\* apply_move that puts a captured piece on the first square instead of off the
\* board
apply_move_capture_to_start(pos, player, move) ==
    LET opponent == 1 - player
        pos1 == IF move.captured # None
                THEN [pos EXCEPT ![opponent][move.captured] = 0]
                ELSE pos
        idx  == IF move.piece = None THEN first_off_board(pos1, player)
                ELSE move.piece
    IN  [pos1 EXCEPT ![player][idx] = move.newpos]

\* the positions after apply_move(player, move)
apply_move(pos, player, move) ==
    LET opponent == 1 - player
        pos1 == IF move.captured # None
                THEN [pos EXCEPT ![opponent][move.captured] = -1]
                ELSE pos
        idx  == IF move.piece = None THEN first_off_board(pos1, player)
                ELSE move.piece
    IN  [pos1 EXCEPT ![player][idx] = move.newpos]

\* is_winner with any() for all()
is_winner_any(pos, player) == \E i \in Pieces : pos[player][i] = TRACK_LEN

is_winner(pos, player) == \A i \in Pieces : pos[player][i] = TRACK_LEN

FreshBoard == [pl \in Players |-> [i \in Pieces |-> -1]]

(***************************************************************************)
(* The window: what a click at one point hits                              *)
(***************************************************************************)
\* a board drawn without the two bear-off squares
Squares_without_bear_off ==
    {<<q, None>> : q \in 4..11}
    \cup {<<q, o>> : q \in (0..3) \cup {12, 13}, o \in Players}

\* make_board_squares: (pos, owner); owner None is the shared middle row
Squares ==
    {<<q, None>> : q \in 4..11}
    \cup {<<q, o>> : q \in (0..3) \cup {12, 13, 14}, o \in Players}

\* squares of the bottom row that the first quiz answer rectangle covers
\* (columns 3, 6, 7, 8 of row 2 against quiz_answer_rects[0])
SquaresUnderAnswer0 == {<<3, 1>>, <<12, 1>>, <<13, 1>>, <<14, 1>>}

Point(btn, rack, sq, ans) ==
    [btn |-> btn, rack |-> rack, pos |-> sq[1], owner |-> sq[2], ans |-> ans]

NoSquare == <<None, None>>

\* the classes of points of the window, by the rectangles they lie in
Points ==
    {Point("roll", FALSE, NoSquare, None),
     Point("cont", FALSE, NoSquare, None),
     Point("none", TRUE, NoSquare, None),
     Point("none", FALSE, NoSquare, None)}
    \cup {Point("none", FALSE, sq, None) : sq \in Squares}
    \cup {Point("none", FALSE, NoSquare, a) : a \in 0..3}
    \cup {Point("none", FALSE, sq, 0) : sq \in SquaresUnderAnswer0}

\* current_player_positions_on_track(player)[pos]: the dict keeps the last index
piece_on_track_at(pos, player, q) ==
    LET here == {i \in Pieces : pos[player][i] = q}
    IN  CHOOSE i \in here : \A j \in here : i >= j

piece_can_move(moves, piece_idx) ==
    \E k \in 1..Len(moves) : moves[k].piece = piece_idx

moves_for_piece(moves, piece_idx) ==
    SelectSeq(moves, LAMBDA m : m.piece = piece_idx)

\* chosen_move without the test "mv[1] == pos_clicked"
chosen_move_any_square(possible, pos_clicked) ==
    IF possible = <<>> THEN <<>> ELSE <<Head(possible)>>

\* the first move of "possible" whose destination is the clicked square, as a
\* sequence of length 0 (chosen is None) or 1
chosen_move(possible, pos_clicked) ==
    LET hits == SelectSeq(possible, LAMBDA m : m.newpos = pos_clicked)
    IN  IF hits = <<>> THEN <<>> ELSE <<Head(hits)>>

(***************************************************************************)
(* main(): the MOUSEBUTTONDOWN dispatch                                    *)
(***************************************************************************)
\* A position of play the exploration starts from besides the fresh game.  The
\* program is in await_roll, White to move, after Black's roll of 0 was
\* acknowledged with Continue.  It is reached from the fresh game by legal
\* play: White ran pieces 0..4 home and brought pieces 5 and 6 to 12 and 10,
\* Black ran pieces 0..4 home and brought piece 5 to 8; six quizzes were
\* answered on the way and the last move applied was White's to slot 10.
LateBoard ==
    [pl \in Players |->
        IF pl = 0
        THEN [i \in Pieces |-> IF i < 5 THEN 14 ELSE IF i = 5 THEN 12 ELSE 10]
        ELSE [i \in Pieces |-> IF i < 5 THEN 14 ELSE IF i = 5 THEN 8 ELSE -1]]

Starts ==
    {[positions |-> FreshBoard, quiz_question_index |-> 0,
      p |-> None, landing_pos |-> None],
     [positions |-> LateBoard, quiz_question_index |-> 6,
      p |-> 0, landing_pos |-> 10]}

\* game = RoyalGameOfUr() and the initial values of main()'s variables
Init ==
    /\ \E s \in Starts :
          /\ positions = s.positions
          /\ quiz_question_index = s.quiz_question_index
          /\ p = s.p
          /\ landing_pos = s.landing_pos
    /\ current_player = 0
    /\ state = "await_roll"
    /\ roll_value = None
    /\ ui_legal_moves = <<>>
    /\ selected_piece = None
    /\ quiz_current = None
    /\ quiz_player = None
    /\ quiz_correct_option = None
    /\ quiz_last_choice = None
    /\ quiz_feedback_frames = 0
    /\ capture_square = None
    /\ capture_anim_frames = 0
    /\ post_capture_state = NoneStr
    /\ n_rolls = 0

\* the Roll button without the test of the state
RollButton_any_state(pt) ==
    /\ pt.btn = "roll"
    /\ n_rolls < MaxRolls
    /\ \E bits \in DiceBits :
          LET r  == roll_dice(bits)
              lm == legal_moves(positions, current_player, r)
          IN  /\ roll_value' = r
              /\ ui_legal_moves' = lm
              /\ selected_piece' = None
              /\ state' = IF r = 0 \/ lm = <<>> THEN "await_continue"
                          ELSE "await_select"
    /\ n_rolls' = n_rolls + 1
    /\ UNCHANGED <<gameVars, quizVars, captureVars, moveVars>>

\* the Roll button with a legal_moves that tries the moves on the live board
\* and leaves the first one applied
RollButton_trial_on_board(pt) ==
    /\ state = "await_roll"
    /\ pt.btn = "roll"
    /\ n_rolls < MaxRolls
    /\ \E bits \in DiceBits :
          LET r  == roll_dice(bits)
              lm == legal_moves(positions, current_player, r)
          IN  /\ roll_value' = r
              /\ ui_legal_moves' = lm
              /\ positions' = IF lm = <<>> THEN positions
                              ELSE apply_move(positions, current_player, lm[1])
              /\ selected_piece' = None
              /\ state' = IF r = 0 \/ lm = <<>> THEN "await_continue"
                          ELSE "await_select"
    /\ n_rolls' = n_rolls + 1
    /\ UNCHANGED <<current_player, quizVars, captureVars, moveVars>>

\* the Roll button listing the moves of the player who is not to move
RollButton_other_players_moves(pt) ==
    /\ state = "await_roll"
    /\ pt.btn = "roll"
    /\ n_rolls < MaxRolls
    /\ \E bits \in DiceBits :
          LET r  == roll_dice(bits)
              lm == legal_moves(positions, 1 - current_player, r)
          IN  /\ roll_value' = r
              /\ ui_legal_moves' = lm
              /\ selected_piece' = None
              /\ state' = IF r = 0 \/ lm = <<>> THEN "await_continue"
                          ELSE "await_select"
    /\ n_rolls' = n_rolls + 1
    /\ UNCHANGED <<gameVars, quizVars, captureVars, moveVars>>

\* "--- Roll button ---"
RollButton(pt) ==
    /\ state = "await_roll"
    /\ pt.btn = "roll"
    /\ n_rolls < MaxRolls
    /\ \E bits \in DiceBits :
          LET r  == roll_dice(bits)
              lm == legal_moves(positions, current_player, r)
          IN  /\ roll_value' = r
              /\ ui_legal_moves' = lm
              /\ selected_piece' = None
              /\ state' = IF r = 0 \/ lm = <<>> THEN "await_continue"
                          ELSE "await_select"
    /\ n_rolls' = n_rolls + 1
    /\ UNCHANGED <<gameVars, quizVars, captureVars, moveVars>>

\* the Continue button without the change of player
ContinueButton_same_player(pt) ==
    /\ state = "await_continue"
    /\ pt.btn = "cont"
    /\ roll_value' = None
    /\ ui_legal_moves' = <<>>
    /\ selected_piece' = None
    /\ state' = "await_roll"
    /\ UNCHANGED <<gameVars, quizVars, captureVars, moveVars, n_rolls>>

\* "--- Continue button (after no moves) ---"
ContinueButton(pt) ==
    /\ state = "await_continue"
    /\ pt.btn = "cont"
    /\ current_player' = 1 - current_player
    /\ roll_value' = None
    /\ ui_legal_moves' = <<>>
    /\ selected_piece' = None
    /\ state' = "await_roll"
    /\ UNCHANGED <<positions, quizVars, captureVars, moveVars, n_rolls>>

\* "--- Selecting a piece ---"
SelectPiece(pt) ==
    /\ state = "await_select"
    /\ LET onBoard == /\ pt.pos # None
                      /\ (pt.owner = None \/ pt.owner = current_player)
                      /\ \E i \in Pieces : positions[current_player][i] = pt.pos
                      /\ on_track(pt.pos)
                      /\ piece_can_move(ui_legal_moves,
                            piece_on_track_at(positions, current_player, pt.pos))
           onRack  == pt.rack /\ piece_can_move(ui_legal_moves, None)
       IN  /\ selected_piece' =
                 IF onRack THEN None
                 ELSE IF onBoard
                      THEN piece_on_track_at(positions, current_player, pt.pos)
                      ELSE selected_piece
           /\ state' = IF onRack \/ onBoard THEN "await_dest" ELSE state
    /\ UNCHANGED <<gameVars, roll_value, ui_legal_moves, quizVars, captureVars,
                   moveVars, n_rolls>>

\* what follows an applied move: "Decide what should happen after any capture
\* animation" (next_state)
next_state_after(pos, player, move) ==
    IF is_winner(pos, player) THEN "game_over"
    ELSE IF move.extra /\ move.newpos \in QUIZ_TRIGGER_ROSETTES THEN "await_quiz"
    ELSE "await_roll"

\* next_player_after that passes the turn after every rosette without a quiz
next_player_after_handover(pos, player, move) ==
    IF is_winner(pos, player) THEN player
    ELSE IF move.extra /\ move.newpos \in QUIZ_TRIGGER_ROSETTES THEN player
    ELSE 1 - player

\* game.current_player after the move was applied by player
next_player_after(pos, player, move) ==
    IF is_winner(pos, player) THEN player
    ELSE IF move.extra /\ move.newpos \in QUIZ_TRIGGER_ROSETTES THEN player
    ELSE IF move.extra THEN player
    ELSE 1 - player

\* does the applied move start a quiz
starts_quiz(pos, player, move) ==
    ~is_winner(pos, player) /\ move.extra /\ move.newpos \in QUIZ_TRIGGER_ROSETTES

\* "--- Selecting a destination ---": the clicked square is a destination of the
\* selected piece, and the move is applied
ApplyChosen(pt, chosen) ==
    LET newPos  == apply_move(positions, current_player, chosen)
        next    == next_state_after(newPos, current_player, chosen)
        quiz    == starts_quiz(newPos, current_player, chosen)
    IN  /\ positions' = newPos
        /\ p' = current_player
        /\ landing_pos' = chosen.newpos
        /\ ui_legal_moves' = <<>>
        /\ selected_piece' = None
        /\ current_player' = next_player_after(newPos, current_player, chosen)
        /\ quiz_player' = IF quiz THEN current_player ELSE quiz_player
        /\ quiz_current' = IF quiz THEN quiz_question_index ELSE quiz_current
        /\ quiz_correct_option' =
              IF quiz THEN QUIZ_CORRECT[quiz_question_index + 1]
              ELSE quiz_correct_option
        /\ IF chosen.captured # None
           THEN /\ capture_square' = chosen.newpos
                /\ capture_anim_frames' = CAPTURE_ANIM_FRAMES
                /\ post_capture_state' = next
                /\ state' = "capture_anim"
           ELSE /\ state' = next
                /\ UNCHANGED captureVars
        /\ UNCHANGED <<roll_value, quiz_question_index, quiz_last_choice,
                       quiz_feedback_frames, n_rolls>>

SelectDest(pt) ==
    /\ state = "await_dest"
    /\ LET possible == moves_for_piece(ui_legal_moves, selected_piece)
           chosen   == IF pt.pos # None /\ (pt.owner = None \/ pt.owner = current_player)
                       THEN chosen_move(possible, pt.pos)
                       ELSE <<>>
       IN  IF chosen # <<>>
           THEN ApplyChosen(pt, chosen[1])
           ELSE \* "If no move was executed, deselect and go back to piece selection"
                /\ selected_piece' = None
                /\ state' = "await_select"
                /\ UNCHANGED <<gameVars, roll_value, ui_legal_moves, quizVars,
                               captureVars, moveVars, n_rolls>>

\* "--- Answering a quiz question ---"
AnswerQuiz(pt) ==
    /\ state = "await_quiz"
    /\ IF quiz_current # None /\ pt.ans # None
       THEN /\ quiz_question_index' = (quiz_question_index + 1) % Len(QUIZ_CORRECT)
            /\ quiz_last_choice' = pt.ans
            /\ current_player' =
                  IF quiz_player = None THEN current_player
                  ELSE IF pt.ans = quiz_correct_option THEN quiz_player
                  ELSE 1 - quiz_player
            /\ quiz_feedback_frames' = QUIZ_FEEDBACK_FRAMES
            /\ state' = "quiz_feedback"
            /\ UNCHANGED <<positions, roll_value, ui_legal_moves, selected_piece,
                           quiz_current, quiz_player, quiz_correct_option,
                           captureVars, moveVars, n_rolls>>
       ELSE UNCHANGED vars

\* the restart going back to await_roll on the board of the finished game
Restart_keeps_board(pt) ==
    /\ state = "game_over"
    /\ IF pt.btn = "roll"
       THEN /\ roll_value' = None
            /\ ui_legal_moves' = <<>>
            /\ selected_piece' = None
            /\ state' = "await_roll"
            /\ UNCHANGED <<gameVars, quizVars, captureVars, moveVars, n_rolls>>
       ELSE UNCHANGED vars

\* state == "game_over": "allow restart by clicking Roll"
Restart(pt) ==
    /\ state = "game_over"
    /\ IF pt.btn = "roll"
       THEN /\ positions' = FreshBoard
            /\ current_player' = 0
            /\ roll_value' = None
            /\ ui_legal_moves' = <<>>
            /\ selected_piece' = None
            /\ state' = "await_roll"
            /\ UNCHANGED <<quizVars, captureVars, moveVars, n_rolls>>
       ELSE UNCHANGED vars

\* no branch of the dispatch is taken for a click at pt
no_branch(pt) ==
    \/ state = "await_roll" /\ pt.btn # "roll"
    \/ state = "await_continue" /\ pt.btn # "cont"
    \/ state \in {"capture_anim", "quiz_feedback"}

\* a click that no branch of the dispatch takes
Ignored(pt) ==
    /\ no_branch(pt)
    /\ UNCHANGED vars

\* a click that the dispatch hands to the branch of the current state
Handled(pt) ==
    \/ RollButton(pt)
    \/ ContinueButton(pt)
    \/ SelectPiece(pt)
    \/ SelectDest(pt)
    \/ AnswerQuiz(pt)
    \/ Restart(pt)

\* one MOUSEBUTTONDOWN event with the mouse at pt
MouseDown(pt) ==
    \/ Handled(pt)
    \/ Ignored(pt)

\* some click that no branch takes
IgnoredClick ==
    /\ {pt \in Points : no_branch(pt)} # {}
    /\ UNCHANGED vars

(***************************************************************************)
(* main(): the countdowns at the end of every frame                        *)
(***************************************************************************)
\* the capture countdown clearing every piece off the capture square when the
\* animation ends
CaptureCountdown_clears_square ==
    /\ state = "capture_anim"
    /\ LET left == IF capture_anim_frames > 0 THEN capture_anim_frames - 1
                   ELSE capture_anim_frames
       IN  /\ capture_anim_frames' = left
           /\ IF left <= 0
              THEN /\ state' = IF post_capture_state = NoneStr THEN "await_roll"
                               ELSE post_capture_state
                   /\ positions' = [pl \in Players |-> [i \in Pieces |->
                          IF positions[pl][i] = capture_square THEN -1
                          ELSE positions[pl][i]]]
                   /\ capture_square' = None
                   /\ post_capture_state' = NoneStr
              ELSE UNCHANGED <<state, capture_square, post_capture_state, positions>>
    /\ UNCHANGED <<current_player, roll_value, ui_legal_moves, selected_piece,
                   quizVars, moveVars, n_rolls>>

\* the capture countdown handing the turn over when the animation ends
CaptureCountdown_switches_player ==
    /\ state = "capture_anim"
    /\ LET left == IF capture_anim_frames > 0 THEN capture_anim_frames - 1
                   ELSE capture_anim_frames
       IN  /\ capture_anim_frames' = left
           /\ IF left <= 0
              THEN /\ state' = IF post_capture_state = NoneStr THEN "await_roll"
                               ELSE post_capture_state
                   /\ current_player' = 1 - current_player
                   /\ capture_square' = None
                   /\ post_capture_state' = NoneStr
              ELSE UNCHANGED <<state, capture_square, post_capture_state,
                               current_player>>
    /\ UNCHANGED <<positions, roll_value, ui_legal_moves, selected_piece,
                   quizVars, moveVars, n_rolls>>

\* "Countdown capture animation (Bull of Heaven)"
CaptureCountdown ==
    /\ state = "capture_anim"
    /\ LET left == IF capture_anim_frames > 0 THEN capture_anim_frames - 1
                   ELSE capture_anim_frames
       IN  /\ capture_anim_frames' = left
           /\ IF left <= 0
              THEN /\ state' = IF post_capture_state = NoneStr THEN "await_roll"
                               ELSE post_capture_state
                   /\ capture_square' = None
                   /\ post_capture_state' = NoneStr
              ELSE UNCHANGED <<state, capture_square, post_capture_state>>
    /\ UNCHANGED <<gameVars, roll_value, ui_legal_moves, selected_piece, quizVars,
                   moveVars, n_rolls>>

\* "Countdown quiz feedback flash"
QuizFeedbackCountdown ==
    /\ state = "quiz_feedback"
    /\ LET left == IF quiz_feedback_frames > 0 THEN quiz_feedback_frames - 1
                   ELSE quiz_feedback_frames
       IN  /\ quiz_feedback_frames' = left
           /\ IF left <= 0
              THEN /\ quiz_current' = None
                   /\ quiz_player' = None
                   /\ quiz_correct_option' = None
                   /\ quiz_last_choice' = None
                   /\ state' = "await_roll"
              ELSE UNCHANGED <<quiz_current, quiz_player, quiz_correct_option,
                               quiz_last_choice, state>>
    /\ UNCHANGED <<gameVars, roll_value, ui_legal_moves, selected_piece,
                   quiz_question_index, captureVars, moveVars, n_rolls>>

\* the same steps as \E pt \in Points : MouseDown(pt), then the countdowns
Next ==
    \/ \E pt \in Points : Handled(pt)
    \/ IgnoredClick
    \/ CaptureCountdown
    \/ QuizFeedbackCountdown

Spec == Init /\ [][Next]_vars

\* the frame loop "while running" runs both countdown blocks in every frame, so
\* a countdown that can step does step
FairSpec ==
    /\ Spec
    /\ WF_vars(CaptureCountdown)
    /\ WF_vars(QuizFeedbackCountdown)

(***************************************************************************)
(* Properties                                                              *)
(***************************************************************************)
\* a move was applied in this step (apply_move ran in the await_dest handler)
MoveApplied == state = "await_dest" /\ positions' # positions

\* C1: turn-handoff law.  When the controller comes back to await_roll after
\* player p's move (directly, after the capture animation, or after the quiz
\* feedback), the player to move is p iff the landing slot is a rosette and
\* (it is not a quiz rosette, or the quiz was answered correctly); otherwise
\* it is the other player.
TurnHandoffLaw ==
    [][(state' = "await_roll"
        /\ state \in {"await_dest", "capture_anim", "quiz_feedback"})
       => LET earned == state = "quiz_feedback"
                        /\ quiz_last_choice = quiz_correct_option
              keeps  == landing_pos' \in {3, 7, 13}
                        /\ (landing_pos' \notin {3, 7} \/ earned)
          IN  current_player' = IF keeps THEN p' ELSE 1 - p']_vars

\* C1 witness: the first roll of a fresh game entered a piece on rosette 3, the
\* quiz was answered correctly and the same player is asked to roll again
TurnKeptAfterQuiz ==
    /\ state = "await_roll"
    /\ n_rolls = 1
    /\ landing_pos = 3
    /\ p = 0
    /\ current_player = 0
    /\ quiz_question_index = 1

\* C2: shared-lane mutual exclusion.  No slot 4..11 holds a piece of player 0
\* and a piece of player 1 at the same time.
SharedLaneExclusive ==
    \A q \in 4..11 :
        ~(/\ \E i \in Pieces : positions[0][i] = q
          /\ \E j \in Pieces : positions[1][j] = q)

\* C2 witness: a capture has just been applied; the capturing piece stands on
\* the shared slot where the opponent's piece stood
CaptureJustApplied ==
    /\ state = "capture_anim"
    /\ capture_anim_frames = CAPTURE_ANIM_FRAMES
    /\ capture_square \in 4..11
    /\ \E i \in Pieces : positions[p][i] = capture_square

\* C3: no stacking.  No two pieces of one player stand on the same slot 0..13.
NoStacking ==
    \A pl \in Players : \A i, j \in Pieces :
        (i # j /\ positions[pl][i] \in 0..13) => positions[pl][i] # positions[pl][j]

\* C3 witness: the player to move has rolled, and one of its pieces would land
\* on another of its own pieces with this roll
OwnPieceBlocksRoll ==
    /\ state = "await_select"
    /\ \E i, j \in Pieces :
          /\ positions[current_player][i] \in 0..13
          /\ positions[current_player][j] \in 0..13
          /\ positions[current_player][i] + roll_value = positions[current_player][j]

\* C4: for every reachable board, either player and every roll, no move of
\* legal_moves has a destination above 14, and none lands on a slot 0..13
\* that one of the mover's own pieces occupies.
LegalDestinations ==
    \A pl \in Players : \A r \in 0..4 :
        LET lm == legal_moves(positions, pl, r)
        IN  \A k \in 1..Len(lm) :
                /\ lm[k].newpos <= 14
                /\ lm[k].newpos \in 0..13
                     => \A i \in Pieces : positions[pl][i] # lm[k].newpos

\* C4 witness: moves were enumerated for a roll with which a piece of the player
\* to move would overshoot the end of the track
OvershootRolled ==
    /\ state = "await_select"
    /\ \E i \in Pieces :
          /\ positions[current_player][i] \in 0..13
          /\ positions[current_player][i] + roll_value > 14

\* C5: for every reachable board, either player and every roll, a move of
\* legal_moves that carries a captured index names an opponent piece that
\* stands on the move's destination, and after apply_move that piece is at -1.
CaptureReference ==
    \A pl \in Players : \A r \in 0..4 :
        LET lm == legal_moves(positions, pl, r)
        IN  \A k \in 1..Len(lm) :
                lm[k].captured # None =>
                    /\ lm[k].captured \in Pieces
                    /\ positions[1 - pl][lm[k].captured] = lm[k].newpos
                    /\ apply_move(positions, pl, lm[k])[1 - pl][lm[k].captured] = -1

\* C5 witness: the moves enumerated at roll time include a capturing move
CaptureOffered ==
    /\ state = "await_select"
    /\ \E k \in 1..Len(ui_legal_moves) : ui_legal_moves[k].captured # None

\* C6: when player p's move is applied, the phase decided for the controller is
\* game_over iff all 7 of p's pieces are at 14 after the move; in that case the
\* player to move stays p and no quiz is started.
WinDecidesGameOver ==
    [][MoveApplied =>
         LET allHome == \A i \in Pieces : positions'[current_player][i] = 14
             over    == \/ state' = "game_over"
                        \/ state' = "capture_anim" /\ post_capture_state' = "game_over"
         IN  /\ over <=> allHome
             /\ allHome => /\ current_player' = current_player
                           /\ quiz_current' = None]_vars

\* C6 witness: the game is over and White has all pieces borne off
WhiteHasWon ==
    /\ state = "game_over"
    /\ \A i \in Pieces : positions[0][i] = 14

\* C7: a piece's position becomes 14 only when the player to move applies a
\* move of the selected on-track piece at pos with pos + roll = 14.
OnlyBearOffReaches14 ==
    [][\A pl \in Players : \A i \in Pieces :
          (positions[pl][i] # 14 /\ positions'[pl][i] = 14) =>
              /\ state = "await_dest"
              /\ pl = current_player
              /\ selected_piece = i
              /\ positions[pl][i] \in 0..13
              /\ positions[pl][i] + roll_value = 14]_vars

\* C7 witness: a bear-off move has just been applied
BearOffApplied ==
    /\ landing_pos = 14
    /\ p \in Players
    /\ \E i \in Pieces : positions[p][i] = 14
    /\ n_rolls >= 1

\* C8: a roll whose legal-move set is empty (every roll of 0 included) leads to
\* await_continue; there nothing changes until the Continue button is clicked,
\* which leads to await_roll of the other player with the positions unchanged.
NoMovesAcknowledged ==
    [][/\ (state = "await_roll" /\ n_rolls' # n_rolls) =>
            /\ ui_legal_moves' = legal_moves(positions, current_player, roll_value')
            /\ roll_value' = 0 => ui_legal_moves' = <<>>
            /\ state' = IF ui_legal_moves' = <<>> THEN "await_continue"
                        ELSE "await_select"
            /\ UNCHANGED <<positions, current_player>>
       /\ state = "await_continue" =>
            /\ \E pt \in Points : pt.btn = "cont" /\ ContinueButton(pt)
            /\ state' = "await_roll"
            /\ current_player' = 1 - current_player
            /\ positions' = positions]_vars

\* C8 witness: a roll above 0 found no legal move and waits to be acknowledged
NoMovesOnPositiveRoll ==
    /\ state = "await_continue"
    /\ roll_value > 0
    /\ ui_legal_moves = <<>>

\* C9: for every reachable board and either player, legal_moves with roll 0 is
\* the empty sequence.
RollZeroNoMoves ==
    \A pl \in Players : legal_moves(positions, pl, 0) = <<>>

\* C9 witness: 0 was rolled while the player to move has pieces on the track
\* and pieces off-board
RolledZeroWithPieces ==
    /\ state = "await_continue"
    /\ roll_value = 0
    /\ \E i \in Pieces : positions[current_player][i] \in 0..13
    /\ \E i \in Pieces : positions[current_player][i] = -1

\* a capture notification is pending / a bonus gate is unresolved
Pending == state \in {"capture_anim", "await_quiz", "quiz_feedback"}

\* C10: while a capture notification is pending or a bonus gate is unresolved,
\* a click on the Roll button, on a board square or on the rack changes neither
\* the positions, nor the player to move, nor the phase, nor the roll and the
\* enumerated moves; and a capture notification and a bonus gate are never
\* pending together.
NoRequestWhilePending ==
    /\ [](/\ ~(capture_square # None /\ quiz_current # None)
          /\ post_capture_state # "await_quiz")
    /\ [][(Pending /\ \E pt \in Points : pt.ans = None /\ MouseDown(pt))
          => UNCHANGED <<positions, current_player, state, roll_value,
                         ui_legal_moves>>]_vars

\* C10 witness: the quiz is open for the player who landed on a quiz rosette
BonusGateOpen ==
    /\ state = "await_quiz"
    /\ quiz_current # None
    /\ quiz_player = current_player

(***************************************************************************)
(* C11  From a fresh game with White (player 0) to move, a roll of 4       *)
(* offers the entry at slot 3 with the extra-turn flag set; applying it    *)
(* opens the quiz for White without changing the player to move; a wrong   *)
(* answer hands the turn to Black (player 1), and the feedback countdown   *)
(* then ends in await_roll with Black still to move.                       *)
(***************************************************************************)
FirstEntered3 ==
    /\ n_rolls = 1
    /\ roll_value = 4
    /\ positions = [FreshBoard EXCEPT ![0][0] = 3]

FreshRollFourScenario ==
    /\ [](  (positions = FreshBoard /\ current_player = 0 /\ roll_value = 4
             /\ state = "await_select")
          => \E k \in 1..Len(ui_legal_moves) :
                ui_legal_moves[k] = Move(None, 3, TRUE, None))
    /\ [][  /\ (positions = FreshBoard /\ current_player = 0 /\ roll_value = 4
                /\ MoveApplied /\ landing_pos' = 3)
               => /\ positions' = [FreshBoard EXCEPT ![0][0] = 3]
                  /\ state' = "await_quiz"
                  /\ quiz_player' = 0
                  /\ current_player' = 0
            /\ (FirstEntered3 /\ state = "await_quiz" /\ state' # state
                /\ quiz_last_choice' # quiz_correct_option)
               => current_player' = 1 /\ positions' = positions
            /\ (FirstEntered3 /\ state = "quiz_feedback" /\ state' # state
                /\ quiz_last_choice # quiz_correct_option)
               => state' = "await_roll" /\ current_player' = 1
                  /\ positions' = positions
         ]_vars

\* Black is to roll after White entered at slot 3 and answered wrongly
TurnHandedAfterWrongAnswer ==
    /\ FirstEntered3
    /\ state = "await_roll"
    /\ current_player = 1
    /\ quiz_question_index = 1
    /\ quiz_current = None

(***************************************************************************)
(* C12  On every board reached, for either player and every roll 1..4:     *)
(* each piece on the track at pos with pos + roll = 14 has its bear-off    *)
(* move in legal_moves, whatever else the board holds, and every move to   *)
(* 14 has the extra-turn flag unset and no captured piece.                 *)
(***************************************************************************)
BearOffAlwaysOffered ==
    [](\A pl \in Players : \A r \in 1..4 :
           LET lm == legal_moves(positions, pl, r)
           IN  /\ \A i \in Pieces :
                     (on_track(positions[pl][i]) /\ positions[pl][i] + r = TRACK_LEN)
                     => \E k \in 1..Len(lm) : lm[k] = Move(i, TRACK_LEN, FALSE, None)
               /\ \A k \in 1..Len(lm) :
                     lm[k].newpos = TRACK_LEN
                     => lm[k].extra = FALSE /\ lm[k].captured = None)

\* the roll just made offers a bear-off while the opponent has a piece on the track
BearOffOffered ==
    /\ state = "await_select"
    /\ \E k \in 1..Len(ui_legal_moves) : ui_legal_moves[k].newpos = TRACK_LEN
    /\ \E j \in Pieces : on_track(positions[1 - current_player][j])

(***************************************************************************)
(* C13  The shared rosette 7 is safe.  On every board reached, when the    *)
(* opponent of a player has a piece on 7, legal_moves offers that player   *)
(* no move to 7 for any roll; the two players never both stand on 7; and   *)
(* while a game is going on a piece on 7 is never sent back to -1.         *)
(***************************************************************************)
SharedRosetteSafe ==
    /\ [](\A pl \in Players :
            /\ (\E j \in Pieces : positions[1 - pl][j] = 7)
               => \A r \in 0..4 :
                     LET lm == legal_moves(positions, pl, r)
                     IN  \A k \in 1..Len(lm) : lm[k].newpos # 7
            /\ ~(/\ \E i \in Pieces : positions[pl][i] = 7
                 /\ \E j \in Pieces : positions[1 - pl][j] = 7))
    /\ [][state # "game_over"
          => \A pl \in Players : \A i \in Pieces :
                positions[pl][i] = 7 => positions'[pl][i] # -1]_vars

\* a player has a piece one roll away from the rosette 7 held by the opponent
RosetteHeldAndTargeted ==
    \E pl \in Players : \E i, j \in Pieces :
        /\ positions[pl][i] \in 3..6
        /\ positions[1 - pl][j] = 7

(***************************************************************************)
(* C14  On every board reached, for either player and every roll, a move   *)
(* of legal_moves carries a captured piece exactly when its destination is *)
(* one of 4, 5, 6, 8, 9, 10, 11 and an opponent piece stands on it.        *)
(* Consequently, while a game is going on, a piece is sent back to -1 only *)
(* from one of those squares: never from 0..3, 7, 12, 13 or 14.            *)
(***************************************************************************)
CaptureOnlyOnOpenShared ==
    /\ [](\A pl \in Players : \A r \in 0..4 :
            LET lm == legal_moves(positions, pl, r)
            IN  \A k \in 1..Len(lm) :
                   (lm[k].captured # None)
                   <=> /\ lm[k].newpos \in {4, 5, 6, 8, 9, 10, 11}
                       /\ \E j \in Pieces : positions[1 - pl][j] = lm[k].newpos)
    /\ [][state # "game_over"
          => \A pl \in Players : \A i \in Pieces :
                (positions[pl][i] # -1 /\ positions'[pl][i] = -1)
                => positions[pl][i] \in {4, 5, 6, 8, 9, 10, 11}]_vars

\* the capture animation runs for a piece that was taken on an open shared square
PieceSentBack ==
    /\ state = "capture_anim"
    /\ capture_anim_frames < CAPTURE_ANIM_FRAMES
    /\ capture_square \in {4, 5, 6, 8, 9, 10, 11}
    /\ p \in Players
    /\ \E i \in Pieces : positions[p][i] = capture_square
    /\ \E j \in Pieces : positions[1 - p][j] = -1

(***************************************************************************)
(* C15  Private lanes are independent.  On every board reached, for        *)
(* either player and every roll 1..4: a piece move or an entry whose       *)
(* destination d is in 0..3 or 12..13 and not held by the mover is in      *)
(* legal_moves with no captured piece, whether or not an opponent piece    *)
(* has index d, and applying it leaves every opponent piece where it is.   *)
(***************************************************************************)
PrivateSquares == (0..3) \cup (12..13)

PrivateLanesIndependent ==
    [](\A pl \in Players : \A r \in 1..4 :
           LET lm   == legal_moves(positions, pl, r)
               free(d) == d \in PrivateSquares
                          /\ \A i \in Pieces : positions[pl][i] # d
               m(i, d) == Move(i, d, d \in ROSETTES, None)
           IN  /\ \A i \in Pieces :
                     (on_track(positions[pl][i]) /\ free(positions[pl][i] + r))
                     => \E k \in 1..Len(lm) : lm[k] = m(i, positions[pl][i] + r)
               /\ ((\E i \in Pieces : positions[pl][i] = -1) /\ free(r - 1))
                  => \E k \in 1..Len(lm) : lm[k] = m(None, r - 1)
               /\ \A k \in 1..Len(lm) :
                     lm[k].newpos \in PrivateSquares
                     => /\ lm[k].captured = None
                        /\ apply_move(positions, pl, lm[k])[1 - pl] = positions[1 - pl])

\* a piece has just landed on a private square whose index the opponent also holds
LandedBesideOpponentIndex ==
    /\ p \in Players
    /\ landing_pos \in PrivateSquares
    /\ \E i \in Pieces : positions[p][i] = landing_pos
    /\ \E j \in Pieces : positions[1 - p][j] = landing_pos

(***************************************************************************)
(* C16  On every board reached, for either player and every roll 0..4,     *)
(* legal_moves holds at most one entry move (piece None), however many of  *)
(* the player's pieces are off the board.  It holds one exactly when the   *)
(* roll is at least 1, some piece of the player is at -1 and landing on    *)
(* slot roll - 1 is allowed by the landing rule (not held by the player;   *)
(* not an opponent-held shared rosette); its destination is roll - 1, its  *)
(* flag is set exactly when roll - 1 is 3, 7 or 13, and it captures        *)
(* exactly when the slot is an opponent-held open shared square.           *)
(***************************************************************************)
SingleEntryMove ==
    [](\A pl \in Players : \A r \in 0..4 :
           LET lm      == legal_moves(positions, pl, r)
               entries == {k \in 1..Len(lm) : lm[k].piece = None}
               d       == r - 1
               own     == \E i \in Pieces : positions[pl][i] = d
               opp     == d \in 4..11 /\ \E j \in Pieces : positions[1 - pl][j] = d
               allowed == ~own /\ ~(opp /\ d = 7)
           IN  /\ Cardinality(entries) <= 1
               /\ (entries # {})
                  <=> (r >= 1 /\ (\E i \in Pieces : positions[pl][i] = -1) /\ allowed)
               /\ \A k \in entries :
                     /\ lm[k].newpos = d
                     /\ lm[k].extra = (d \in {3, 7, 13})
                     /\ (lm[k].captured # None) <=> (opp /\ d # 7))

\* pieces are waiting off the board but one of the mover's own pieces holds the
\* entry slot of the roll just made
EntryBlockedByOwnPiece ==
    /\ state \in {"await_select", "await_continue"}
    /\ roll_value \in 1..4
    /\ Cardinality({i \in Pieces : positions[current_player][i] = -1}) >= 2
    /\ \E i \in Pieces : positions[current_player][i] = roll_value - 1

(***************************************************************************)
(* C17  On every board reached, for either player and every roll 0..4,     *)
(* the sequence legal_moves returns lists the moves of pieces on the board *)
(* in strictly increasing piece index, so at most one per piece, and the   *)
(* entry move, if there is one, comes last.                                *)
(***************************************************************************)
MovesInPieceOrder ==
    [](\A pl \in Players : \A r \in 0..4 :
           LET lm == legal_moves(positions, pl, r)
           IN  \A k \in 1..Len(lm) : \A l \in 1..Len(lm) :
                  k < l => /\ lm[k].piece # None
                           /\ (lm[l].piece # None => lm[k].piece < lm[l].piece))

\* the roll just made offers a piece move followed by the entry move
PieceMoveThenEntry ==
    /\ state = "await_select"
    /\ Len(ui_legal_moves) >= 2
    /\ ui_legal_moves[1].piece # None
    /\ ui_legal_moves[Len(ui_legal_moves)].piece = None

NewGameStarted ==
    /\ positions' = FreshBoard
    /\ current_player' = 0
    /\ state' = "await_roll"
    /\ roll_value' = None
    /\ ui_legal_moves' = <<>>

GameOverTerminal ==
    [][state = "game_over"
       => /\ n_rolls' = n_rolls
          /\ UNCHANGED <<quizVars, moveVars>>
          /\ \/ UNCHANGED <<positions, current_player, state, roll_value,
                            ui_legal_moves>>
             \/ /\ \E pt \in Points : pt.btn = "roll" /\ MouseDown(pt)
                /\ NewGameStarted
      ]_vars

\* the game has ended with the winner's last piece borne off, and clicks can arrive
GameOverAwaitsClick ==
    /\ state = "game_over"
    /\ p \in Players
    /\ landing_pos = TRACK_LEN
    /\ is_winner(positions, p)
    /\ current_player = p

(***************************************************************************)
(* C20  (as claimed) A click on Roll in any state other than await_roll    *)
(* makes no roll and leaves the positions, the player to move, the list of *)
(* legal moves, the roll value and the phase unchanged, await_select and   *)
(* await_dest counting as the one phase of choosing a move.                *)
(***************************************************************************)
phase_of(s) == IF s = "await_dest" THEN "await_select" ELSE s

RollClickOutsideAwaitRoll ==
    /\ state # "await_roll"
    /\ \E pt \in Points : pt.btn = "roll" /\ MouseDown(pt)

RollRejectedOutsideAwaitRoll ==
    [][RollClickOutsideAwaitRoll
       => /\ n_rolls' = n_rolls
          /\ UNCHANGED <<positions, current_player, ui_legal_moves, roll_value>>
          /\ phase_of(state') = phase_of(state)
      ]_vars

(***************************************************************************)
(* C20  (amended) A click on Roll in any state other than await_roll makes *)
(* no roll.  In game_over it starts a new game: all pieces at -1, White to *)
(* move, no roll value, no legal moves, state await_roll.  In every other  *)
(* state it leaves the positions, the player to move, the list of legal    *)
(* moves and the roll value unchanged, and the state too, except that in   *)
(* await_dest it drops the selection and returns to await_select.          *)
(***************************************************************************)
RollRejectedUnlessGameOver ==
    [][RollClickOutsideAwaitRoll
       => /\ n_rolls' = n_rolls
          /\ IF state = "game_over"
             THEN NewGameStarted
             ELSE /\ UNCHANGED <<positions, current_player, ui_legal_moves,
                                 roll_value>>
                  /\ state' = phase_of(state)
                  /\ state = "await_dest" => selected_piece' = None
      ]_vars

\* a new game has been constructed by a click on Roll after a game was won
NewGameAfterGameOver ==
    /\ state = "await_roll"
    /\ positions = FreshBoard
    /\ landing_pos = TRACK_LEN
    /\ roll_value = None

(***************************************************************************)
(* C21  A click in await_dest that names a move not in the enumerated list *)
(* (no listed move has the selected piece and the clicked destination; a   *)
(* click off the board included) applies nothing: the positions, the       *)
(* player to move, the roll and the list of legal moves stay as they are   *)
(* and the program is back in await_select, still waiting for a move.      *)
(* Nor does any click in await_select change them, and it leaves the       *)
(* program in await_select or await_dest.                                  *)
(***************************************************************************)
InvalidMoveRejected ==
    [][/\ \A pt \in Points :
            (/\ state = "await_dest"
             /\ MouseDown(pt)
             /\ ~\E k \in 1..Len(ui_legal_moves) :
                    /\ ui_legal_moves[k].piece = selected_piece
                    /\ ui_legal_moves[k].newpos = pt.pos)
            => /\ UNCHANGED <<positions, current_player, roll_value,
                              ui_legal_moves, n_rolls>>
               /\ state' = "await_select"
       /\ state = "await_select"
          => /\ UNCHANGED <<positions, current_player, roll_value,
                            ui_legal_moves, n_rolls>>
             /\ state' \in {"await_select", "await_dest"}
      ]_vars

\* a piece on the track is selected that has one destination only, while the
\* list holds moves of other pieces too
OneDestinationSelected ==
    /\ state = "await_dest"
    /\ selected_piece # None
    /\ Len(moves_for_piece(ui_legal_moves, selected_piece)) = 1
    /\ Len(ui_legal_moves) >= 2

(***************************************************************************)
(* C22  Within one game the positions change only when a listed move is    *)
(* applied, once per accepted move.  A step that changes the positions,    *)
(* other than the construction of a new game in game_over, is taken in     *)
(* await_dest and sets them to apply_move of one listed move of the        *)
(* selected piece; it empties the list and leaves the choice of a move, so *)
(* the same move cannot be applied again, and the choice of a move is      *)
(* entered only by a new roll.  Rolling, Continue, selecting and           *)
(* reselecting, the capture animation and the quiz with its feedback leave *)
(* every position unchanged.                                               *)
(***************************************************************************)
Choosing(s) == s \in {"await_select", "await_dest"}

PositionsChangeOnlyByMove ==
    [][/\ (positions' # positions /\ state # "game_over")
          => /\ state = "await_dest"
             /\ \E k \in 1..Len(ui_legal_moves) :
                   /\ ui_legal_moves[k].piece = selected_piece
                   /\ positions' = apply_move(positions, current_player,
                                              ui_legal_moves[k])
             /\ ui_legal_moves' = <<>>
             /\ ~Choosing(state')
       /\ (Choosing(state') /\ ~Choosing(state)) => n_rolls' = n_rolls + 1
       /\ state \in {"await_roll", "await_continue", "await_select",
                     "capture_anim", "await_quiz", "quiz_feedback"}
          => positions' = positions
      ]_vars

\* two rolls were made and a move was applied after each
TwoMovesApplied ==
    /\ n_rolls = 2
    /\ state = "await_roll"
    /\ ui_legal_moves = <<>>
    /\ Cardinality({i \in Pieces : FreshBoard[0][i] # positions[0][i]})
       + Cardinality({i \in Pieces : FreshBoard[1][i] # positions[1][i]}) = 2

(***************************************************************************)
(* C23  On every board reached, for either player, every roll and every    *)
(* move m of legal_moves, apply_move changes exactly one piece of the      *)
(* mover: for an entry a piece that was at -1, now at the destination, so  *)
(* the mover's count of pieces at -1 drops by one; otherwise the piece m   *)
(* names, now at the destination.  It changes an opponent piece only when  *)
(* m carries a capture, and then exactly the captured one, which stood on  *)
(* the destination and is now at -1.  All other pieces keep their place.   *)
(***************************************************************************)
off_count(pos, player) == Cardinality({i \in Pieces : pos[player][i] = -1})

ApplyMoveFrame ==
    [](\A pl \in Players : \A r \in 1..4 :
           LET lm == legal_moves(positions, pl, r)
           IN  \A k \in 1..Len(lm) :
                  LET m       == lm[k]
                      new     == apply_move(positions, pl, m)
                      moved   == {i \in Pieces : new[pl][i] # positions[pl][i]}
                      sent    == {j \in Pieces : new[1 - pl][j] # positions[1 - pl][j]}
                  IN  /\ Cardinality(moved) = 1
                      /\ \A i \in moved :
                            /\ new[pl][i] = m.newpos
                            /\ IF m.piece = None
                               THEN /\ positions[pl][i] = -1
                                    /\ off_count(new, pl) = off_count(positions, pl) - 1
                               ELSE i = m.piece
                      /\ IF m.captured = None THEN sent = {}
                         ELSE /\ sent = {m.captured}
                              /\ positions[1 - pl][m.captured] = m.newpos
                              /\ new[1 - pl][m.captured] = -1)

\* an entry has just been applied for a player who still has pieces off the board
EntryJustApplied ==
    /\ p \in Players
    /\ n_rolls >= 1
    /\ landing_pos \in 0..3
    /\ positions[p][0] = landing_pos
    /\ off_count(positions, p) = N_PIECES - 1

(***************************************************************************)
(* C24  In every reachable state each of the 14 piece positions (7 for     *)
(* each of the two players) is an integer from -1 to 14.                   *)
(***************************************************************************)
PositionsInRange ==
    /\ DOMAIN positions = Players
    /\ \A pl \in Players :
          /\ DOMAIN positions[pl] = Pieces
          /\ \A i \in Pieces : positions[pl][i] \in -1..14

\* after a bear-off the board holds pieces at -1, on the track and at 14
BothEndsOfRangeHeld ==
    /\ n_rolls >= 1
    /\ landing_pos = 14
    /\ \E pl \in Players : \E i, j, k \in Pieces :
          /\ positions[pl][i] = -1
          /\ positions[pl][j] \in 0..13
          /\ positions[pl][k] = 14

(***************************************************************************)
(* C25  Every roll is the sum of four draws from {0, 1}: the roll value is *)
(* always absent or an integer from 0 to 4, every roll step stores such a  *)
(* sum, and whenever a roll can be made each of 0, 1, 2, 3, 4 can be its   *)
(* outcome.                                                                *)
(***************************************************************************)
RollIsSumOfFourBits ==
    /\ [](roll_value = None \/ roll_value \in 0..4)
    /\ [][n_rolls' # n_rolls
          => \E b1, b2, b3, b4 \in {0, 1} : roll_value' = b1 + b2 + b3 + b4]_vars
    /\ []((state = "await_roll" /\ n_rolls < MaxRolls)
          => \A v \in 0..4 :
                ENABLED (/\ \E pt \in Points : RollButton(pt)
                         /\ roll_value' = v))

\* the highest roll has been made
RolledFour ==
    /\ n_rolls >= 1
    /\ roll_value = 4
    /\ state \in {"await_select", "await_continue"}

(***************************************************************************)
(* C26  Gating is per rosette.  An applied move that lands on rosette 3 or *)
(* 7 (it cannot win) puts the program in await_quiz for the mover, and no  *)
(* roll is made in await_quiz or quiz_feedback.  An applied move that      *)
(* lands on rosette 13 starts no quiz: the program goes straight to        *)
(* await_roll with the same player to move.                                *)
(***************************************************************************)
GatingPerRosette ==
    [][/\ (MoveApplied /\ landing_pos' \in {3, 7})
          => /\ ~is_winner(positions', current_player)
             /\ state' = "await_quiz"
             /\ quiz_player' = current_player
             /\ quiz_current' # None
             /\ current_player' = current_player
       /\ (MoveApplied /\ landing_pos' = 13)
          => /\ state' = "await_roll"
             /\ current_player' = current_player
             /\ UNCHANGED <<quiz_current, quiz_player, quiz_question_index>>
       /\ state \in {"await_quiz", "quiz_feedback"} => n_rolls' = n_rolls
      ]_vars

\* the mover is to roll again straight after landing on rosette 13
LandedOnLastRosette ==
    /\ state = "await_roll"
    /\ n_rolls >= 1
    /\ landing_pos = 13
    /\ p \in Players
    /\ current_player = p
    /\ \E i \in Pieces : positions[p][i] = 13
    /\ quiz_current = None

(***************************************************************************)
(* C27  The capture animation and the quiz feedback resolve by themselves. *)
(* When a capturing move is applied, the state to follow and the player to *)
(* move are decided then; during capture_anim no click changes anything,   *)
(* and the frame that ends the animation puts the program in exactly that  *)
(* state with that player.  During quiz_feedback the player to move does   *)
(* not change and the only state to follow is await_roll.  With the        *)
(* countdowns running in every frame, capture_anim always leads to the     *)
(* decided state and player, and quiz_feedback always leads to await_roll. *)
(***************************************************************************)
TransientsResolve ==
    /\ [][/\ (MoveApplied /\ state' = "capture_anim")
             => post_capture_state' =
                   next_state_after(positions', current_player,
                                    CHOOSE m \in {ui_legal_moves[k] :
                                                    k \in 1..Len(ui_legal_moves)} :
                                       /\ m.piece = selected_piece
                                       /\ m.newpos = landing_pos')
          /\ state = "capture_anim"
             => /\ UNCHANGED <<positions, current_player, roll_value,
                               ui_legal_moves, n_rolls>>
                /\ \/ state' = "capture_anim" /\ UNCHANGED post_capture_state
                   \/ state' = post_capture_state
                /\ ~\E pt \in Points : Handled(pt)
          /\ state = "quiz_feedback"
             => /\ UNCHANGED <<positions, current_player, roll_value,
                               ui_legal_moves, n_rolls>>
                /\ state' \in {"quiz_feedback", "await_roll"}
         ]_vars
    /\ [](state = "capture_anim"
          => post_capture_state \in {"game_over", "await_roll"})
    /\ \A s \in {"game_over", "await_roll"} : \A c \in Players :
          (state = "capture_anim" /\ post_capture_state = s /\ current_player = c)
          ~> (state = s /\ current_player = c)
    /\ \A c \in Players :
          (state = "quiz_feedback" /\ current_player = c)
          ~> (state = "await_roll" /\ current_player = c)

\* Black's capture of White's piece on slot 10 was shown and White is to roll
CaptureResolvedToOtherPlayer ==
    /\ state = "await_roll"
    /\ p = 1
    /\ landing_pos = 10
    /\ positions[0][6] = -1
    /\ current_player = 0
    /\ capture_square = None
    /\ post_capture_state = NoneStr

(***************************************************************************)
(* C28  On every board reached, for either player and every roll, no move  *)
(* of legal_moves has both the extra-turn flag and a captured piece.  So   *)
(* a capturing move, when applied, starts no quiz and passes the turn to   *)
(* the other player unless it wins, and the capture animation never ends   *)
(* in await_quiz.                                                          *)
(***************************************************************************)
NoBonusWithCapture ==
    /\ [](\A pl \in Players : \A r \in 0..4 :
            LET lm == legal_moves(positions, pl, r)
            IN  \A k \in 1..Len(lm) : ~(lm[k].extra /\ lm[k].captured # None))
    /\ [][/\ (MoveApplied /\ state' = "capture_anim")
             => /\ post_capture_state' # "await_quiz"
                /\ UNCHANGED <<quiz_current, quiz_player>>
                /\ \/ current_player' = 1 - current_player
                   \/ is_winner(positions', current_player)
          /\ (state = "capture_anim" /\ state' # "capture_anim")
             => state' \in {"await_roll", "game_over"}
         ]_vars

\* the capture animation runs with the turn already passed to the other player
CaptureShownTurnPassed ==
    /\ state = "capture_anim"
    /\ p \in Players
    /\ current_player = 1 - p
    /\ post_capture_state = "await_roll"
    /\ landing_pos \notin ROSETTES

(***************************************************************************)
(* C29  Every move the program applies is a member of legal_moves          *)
(* evaluated on the positions, the player to move and the roll that hold   *)
(* when it is applied.  The list made at roll time is not stale: from the  *)
(* roll to the application the positions, the player to move and the roll  *)
(* do not change, and the stored list is the list of that evaluation.      *)
(***************************************************************************)
AppliedMoveIsLegalNow ==
    /\ [][/\ MoveApplied
             => LET lm == legal_moves(positions, current_player, roll_value)
                IN  \E k \in 1..Len(lm) :
                       /\ lm[k].piece = selected_piece
                       /\ lm[k].newpos = landing_pos'
                       /\ positions' = apply_move(positions, current_player, lm[k])
                       /\ p' = current_player
          /\ (Choosing(state) /\ Choosing(state'))
             => UNCHANGED <<positions, current_player, roll_value, ui_legal_moves>>
          /\ (~Choosing(state) /\ Choosing(state'))
             => /\ UNCHANGED <<positions, current_player>>
                /\ ui_legal_moves' = legal_moves(positions, current_player, roll_value')
         ]_vars

\* the second roll's move, chosen from the list, has put a piece on rosette 7
SecondMoveLandedOn7 ==
    /\ state = "await_quiz"
    /\ n_rolls = 2
    /\ landing_pos = 7
    /\ p \in Players
    /\ \E i \in Pieces : positions[p][i] = 7

(***************************************************************************)
(* C30  In every reachable state at most one player satisfies is_winner,   *)
(* and in await_roll, await_select, await_dest, await_continue and         *)
(* await_quiz neither player does.                                         *)
(***************************************************************************)
AtMostOneWinner ==
    /\ ~(is_winner(positions, 0) /\ is_winner(positions, 1))
    /\ state \in {"await_roll", "await_select", "await_dest", "await_continue",
                  "await_quiz"}
       => \A pl \in Players : ~is_winner(positions, pl)

\* the mover's last piece is selected and its bear-off is listed: one click
\* from winning, and nobody has won
LastPieceSelectedToBearOff ==
    /\ state = "await_dest"
    /\ selected_piece # None
    /\ Cardinality({i \in Pieces : positions[current_player][i] = TRACK_LEN})
          = N_PIECES - 1
    /\ positions[current_player][selected_piece] + roll_value = TRACK_LEN

(***************************************************************************)
(* C31  The program never deadlocks short of game_over.  In every          *)
(* reachable state: in await_roll a roll can be made (as long as the       *)
(* number of rolls explored allows one); in await_continue the Continue    *)
(* click leads to await_roll; in capture_anim and quiz_feedback the        *)
(* countdown can step; in await_quiz an answer click leads to              *)
(* quiz_feedback.  While a move is being chosen the list of legal moves is *)
(* not empty; in await_select every listed move's piece (or the rack, for  *)
(* the entry) can be selected by a click; in await_dest the selection has  *)
(* a listed move, every listed move of the selection can be applied by a   *)
(* click on its destination, and a click can return to await_select for a  *)
(* move of another piece.                                                  *)
(***************************************************************************)
NoDeadlock ==
    [](/\ (state = "await_roll" /\ n_rolls < MaxRolls)
          => ENABLED (\E pt \in Points : RollButton(pt))
       /\ state = "await_continue"
          => ENABLED (/\ \E pt \in Points : ContinueButton(pt)
                      /\ state' = "await_roll")
       /\ state = "capture_anim" => ENABLED (CaptureCountdown /\ vars' # vars)
       /\ state = "quiz_feedback" => ENABLED (QuizFeedbackCountdown /\ vars' # vars)
       /\ state = "await_quiz"
          => ENABLED (/\ \E pt \in Points : AnswerQuiz(pt)
                      /\ state' = "quiz_feedback")
       /\ state = "await_select"
          => /\ ui_legal_moves # <<>>
             /\ \A k \in 1..Len(ui_legal_moves) :
                   ENABLED (/\ \E pt \in Points : SelectPiece(pt)
                            /\ state' = "await_dest"
                            /\ selected_piece' = ui_legal_moves[k].piece)
       /\ state = "await_dest"
          => /\ moves_for_piece(ui_legal_moves, selected_piece) # <<>>
             /\ \A k \in 1..Len(ui_legal_moves) :
                   ui_legal_moves[k].piece = selected_piece
                   => ENABLED (/\ \E pt \in Points : SelectDest(pt)
                               /\ landing_pos' = ui_legal_moves[k].newpos
                               /\ positions' = apply_move(positions, current_player,
                                                          ui_legal_moves[k]))
             /\ ENABLED (/\ \E pt \in Points : SelectDest(pt)
                         /\ state' = "await_select"))

\* the rack is selected for the entry while the list also holds a piece move
EntrySelectedAmongMoves ==
    /\ state = "await_dest"
    /\ selected_piece = None
    /\ Len(ui_legal_moves) >= 2
    /\ ui_legal_moves[1].piece # None

(***************************************************************************)
(* C32  Progress is monotone.  On every board reached, for either player,  *)
(* every roll and every listed move: the destination is strictly beyond    *)
(* the position of the piece moved (beyond -1 for an entry), the piece     *)
(* moved is not at 14, and after apply_move no piece of the mover is lower *)
(* than before, an opponent piece is lower only if it is the captured one, *)
(* now at -1, and neither player has fewer pieces at 14.  On every step of *)
(* a game in progress a piece at 14 stays at 14, a position decreases only *)
(* to -1 and only for a piece of the player who is not moving, and neither *)
(* player's count of pieces at 14 decreases.                               *)
(***************************************************************************)
borne_count(pos, player) == Cardinality({i \in Pieces : pos[player][i] = TRACK_LEN})

MonotoneProgress ==
    /\ [](\A pl \in Players : \A r \in 0..4 :
            LET lm == legal_moves(positions, pl, r)
            IN  \A k \in 1..Len(lm) :
                   LET m   == lm[k]
                       new == apply_move(positions, pl, m)
                   IN  /\ m.piece # None
                          => /\ positions[pl][m.piece] < m.newpos
                             /\ positions[pl][m.piece] # TRACK_LEN
                             /\ new[pl][m.piece] = m.newpos
                       /\ m.newpos > -1
                       /\ \A i \in Pieces : new[pl][i] >= positions[pl][i]
                       /\ \A j \in Pieces :
                             new[1 - pl][j] < positions[1 - pl][j]
                             => j = m.captured /\ new[1 - pl][j] = -1
                       /\ \A x \in Players :
                             borne_count(new, x) >= borne_count(positions, x))
    /\ [][state # "game_over"
          => \A pl \in Players :
                /\ \A i \in Pieces :
                      /\ positions[pl][i] = TRACK_LEN => positions'[pl][i] = TRACK_LEN
                      /\ positions'[pl][i] < positions[pl][i]
                         => /\ positions'[pl][i] = -1
                            /\ pl = 1 - current_player
                            /\ state = "await_dest"
                /\ borne_count(positions', pl) >= borne_count(positions, pl)
         ]_vars

\* White has borne off a sixth piece and the game goes on
SixthPieceBorneOff ==
    /\ n_rolls >= 1
    /\ state = "await_roll"
    /\ p = 0
    /\ landing_pos = TRACK_LEN
    /\ borne_count(positions, 0) = N_PIECES - 1

====
